---- MODULE Spec2Model ----
(***************************************************************************)
(* Model of tensorflow_tts/processor/base_processorv2.py (ExamplePrepro).  *)
(*                                                                         *)
(* Python strings are sequences of one-character strings, so that strip,   *)
(* split, path joining, the extension test and the attribute-name test of  *)
(* __getattr__ are computed as the code computes them.  A dictionary key   *)
(* carries its Python type, <<"str", chars>> or <<"int", n>>: Python never *)
(* finds an int key equal to a str key, and json.dump turns an int key     *)
(* into a str key.                                                         *)
(***************************************************************************)
EXTENDS Integers, Sequences, FiniteSets, TLC

VARIABLES train_file, mapper_file, p1, p2, call

vars == <<train_file, mapper_file, p1, p2, call>>

(***************************************************************************)
(* Bounds of the model.                                                    *)
(***************************************************************************)
MaxLines == 2
MaxSyms == 2
MaxList == 2

(***************************************************************************)
(* Python values and built-ins.                                            *)
(***************************************************************************)
PyStr(s) == <<"str", s>>
PyInt(n) == <<"int", n>>
PyList(l) == <<"list", l>>
IsStr(v) == v[1] = "str"
IsList(v) == v[1] = "list"

EmptyDict == [k \in {} |-> 0]

IsSpace(c) == c \in {" ", "\n", "\t", "\r"}

RECURSIVE LStrip(_)
LStrip(s) == IF s # <<>> /\ IsSpace(Head(s)) THEN LStrip(Tail(s)) ELSE s

RECURSIVE RStrip(_)
RStrip(s) ==
    IF s # <<>> /\ IsSpace(s[Len(s)]) THEN RStrip(SubSeq(s, 1, Len(s) - 1)) ELSE s

\* str.strip()
Strip(s) == RStrip(LStrip(s))

\* first index at or after i where sep occurs in s, 0 if none
RECURSIVE Find(_, _, _)
Find(s, sep, i) ==
    IF i + Len(sep) - 1 > Len(s) THEN 0
    ELSE IF SubSeq(s, i, i + Len(sep) - 1) = sep THEN i
    ELSE Find(s, sep, i + 1)

\* str.split(sep), sep non-empty
RECURSIVE Split(_, _)
Split(s, sep) ==
    LET i == Find(s, sep, 1) IN
    IF i = 0 THEN <<s>>
    ELSE <<SubSeq(s, 1, i - 1)>> \o Split(SubSeq(s, i + Len(sep), Len(s)), sep)

\* the slice s[-n:]
Suffix(s, n) ==
    IF n = 0 \/ n >= Len(s) THEN s ELSE SubSeq(s, Len(s) - n + 1, Len(s))

\* os.path.join(a, b) on a POSIX system
PathJoin(a, b) ==
    IF b # <<>> /\ Head(b) = "/" THEN b
    ELSE IF a = <<>> \/ a[Len(a)] = "/" THEN a \o b
    ELSE a \o <<"/">> \o b

Digits == <<"0", "1", "2", "3", "4", "5", "6", "7", "8", "9">>

\* str(n) for n >= 0
RECURSIVE IntToStr(_)
IntToStr(n) ==
    IF n < 10 THEN <<Digits[n + 1]>> ELSE IntToStr(n \div 10) \o <<Digits[(n % 10) + 1]>>

DigitVal(c) == CHOOSE d \in 0..9 : Digits[d + 1] = c

\* int(s) for a string of decimal digits
RECURSIVE StrToInt(_)
StrToInt(s) ==
    IF Len(s) = 1 THEN DigitVal(s[1])
    ELSE 10 * StrToInt(SubSeq(s, 1, Len(s) - 1)) + DigitVal(s[Len(s)])

\* json.dump writes every object key as a string
JsonKey(k) == IF k[1] = "int" THEN PyStr(IntToStr(k[2])) ELSE k

JsonObject(d) ==
    [jk \in {JsonKey(k) : k \in DOMAIN d} |->
        d[CHOOSE k \in DOMAIN d : JsonKey(k) = jk]]

(***************************************************************************)
(* Class attributes and field defaults of ExamplePrepro.                   *)
(***************************************************************************)
root_dir == <<"/", "d">>
delimiter == <<"|">>
f_extension == <<".", "w", "a", "v">>

\* positions: index after split, counted from 0
positions == [file |-> 0, text |-> 1, speaker_name |-> 2]

UNK == <<"[", "U", "N", "K", "]">>
PAD == <<"[", "P", "A", "D", "]">>
EOS == <<"[", "E", "O", "S", "]">>
BOS == <<"[", "B", "O", "S", "]">>

\* extra_tokens, in insertion order
extra_tokens == << <<PyStr(<<"u", "n", "k">>), UNK>>,
                   <<PyStr(<<"p", "a", "d">>), PAD>>,
                   <<PyStr(<<"e", "o", "s">>), EOS>>,
                   <<PyStr(<<"b", "o", "s">>), BOS>> >>

(***************************************************************************)
(* Insertion-ordered dictionaries (extra_tokens, speakers_map) are         *)
(* sequences of <<key, value>> pairs with distinct keys.                   *)
(***************************************************************************)
Values(d) == [i \in DOMAIN d |-> d[i][2]]
HasKey(d, k) == \E i \in DOMAIN d : d[i][1] = k
Get(d, k) == d[CHOOSE i \in DOMAIN d : d[i][1] = k][2]

NoError == "none"

(***************************************************************************)
(* An instance: the dataclass fields the methods read or write.  Uninit is *)
(* the slot of an instance that does not exist (never constructed, or the  *)
(* constructor raised).  reverse_speaker is assigned only on the           *)
(* manifest-driven path.                                                   *)
(***************************************************************************)
NewInstance(symbols, speakers_map) ==
    [built |-> TRUE,
     symbols |-> symbols,
     speakers_map |-> speakers_map,
     items |-> <<>>,
     symbol_to_id |-> EmptyDict,
     id_to_symbol |-> EmptyDict,
     reverse_speaker |-> EmptyDict]

Uninit == [NewInstance(<<>>, <<>>) EXCEPT !.built = FALSE]

NoFile == [exists |-> FALSE, data |-> <<>>]

(***************************************************************************)
(* create_items: one item [text, wav_path, speaker_name] per line of the   *)
(* training file; parts[1] or parts[2] of a line with fewer fields raises  *)
(* IndexError.                                                             *)
(***************************************************************************)
RECURSIVE create_items_loop(_, _)
create_items_loop(lines, items) ==
    IF lines = <<>> THEN [err |-> NoError, items |-> items]
    ELSE LET parts == Split(Strip(Head(lines)), delimiter)
             joined == PathJoin(root_dir, parts[positions.file + 1])
             wav_path == IF Suffix(joined, Len(f_extension)) # f_extension
                         THEN joined \o f_extension
                         ELSE joined
         IN  IF Len(parts) < positions.text + 1 \/ Len(parts) < positions.speaker_name + 1
             THEN [err |-> "IndexError", items |-> items]
             ELSE create_items_loop(Tail(lines),
                      Append(items, <<parts[positions.text + 1], wav_path,
                                      parts[positions.speaker_name + 1]>>))

create_items(self, file) ==
    IF ~file.exists THEN [err |-> "FileNotFoundError", items |-> self.items]
    ELSE create_items_loop(file.data, self.items)

(***************************************************************************)
(* create_speaker_map: sp_id starts at 0 whatever speakers_map holds.      *)
(***************************************************************************)
RECURSIVE create_speaker_map_loop(_, _, _)
create_speaker_map_loop(items, speakers_map, sp_id) ==
    IF items = <<>> THEN speakers_map
    ELSE LET i == Head(items)
             speaker_name == PyStr(i[Len(i)])
         IN  IF ~HasKey(speakers_map, speaker_name)
             THEN create_speaker_map_loop(Tail(items),
                      Append(speakers_map, <<speaker_name, sp_id>>), sp_id + 1)
             ELSE create_speaker_map_loop(Tail(items), speakers_map, sp_id)

create_speaker_map(self) == create_speaker_map_loop(self.items, self.speakers_map, 0)

\* {v: k for k, v in speakers_map.items()}: the last key with a value wins
reverse_speaker_of(speakers_map) ==
    [v \in {PyInt(speakers_map[i][2]) : i \in DOMAIN speakers_map} |->
        LET last == CHOOSE i \in DOMAIN speakers_map :
                        /\ speakers_map[i][2] = v[2]
                        /\ \A j \in DOMAIN speakers_map :
                               speakers_map[j][2] = v[2] => j <= i
        IN  speakers_map[last][1][2]]

\* the index of the last occurrence of s in the list l, counted from 0
LastIndex(l, s) ==
    (CHOOSE i \in DOMAIN l : l[i] = s /\ \A j \in DOMAIN l : l[j] = s => j <= i) - 1

\* create_symbols with the reserved tokens put before the caller's symbols
create_symbols_prepend(self) ==
    LET symbols == Values(extra_tokens) \o self.symbols IN
    [self EXCEPT
        !.symbols = symbols,
        !.symbol_to_id = [k \in {PyStr(symbols[i]) : i \in DOMAIN symbols} |->
                             LastIndex(symbols, k[2])],
        !.id_to_symbol = [k \in {PyInt(i - 1) : i \in DOMAIN symbols} |->
                             symbols[k[2] + 1]]]

create_symbols(self) ==
    LET symbols == self.symbols \o Values(extra_tokens) IN
    [self EXCEPT
        !.symbols = symbols,
        !.symbol_to_id = [k \in {PyStr(symbols[i]) : i \in DOMAIN symbols} |->
                             LastIndex(symbols, k[2])],
        !.id_to_symbol = [k \in {PyInt(i - 1) : i \in DOMAIN symbols} |->
                             symbols[k[2] + 1]]]

(***************************************************************************)
(* The vocabulary snapshot, mapper.json.                                   *)
(***************************************************************************)
save_mapper(self) ==
    [exists |-> TRUE,
     data |-> [symbol_to_id |-> JsonObject(self.symbol_to_id),
               id_to_symbol |-> JsonObject(self.id_to_symbol),
               speakers_map |-> [i \in DOMAIN self.speakers_map |->
                                    <<JsonKey(self.speakers_map[i][1]),
                                      self.speakers_map[i][2]>>]]]

\* __load_mapper without the int(k) conversion of the id_to_symbol keys
load_mapper_str_keys(self, file) ==
    IF ~file.exists THEN [err |-> "FileNotFoundError", self |-> self]
    ELSE [err |-> NoError,
          self |-> [self EXCEPT
              !.speakers_map = file.data.speakers_map,
              !.symbol_to_id = file.data.symbol_to_id,
              !.id_to_symbol = file.data.id_to_symbol]]

load_mapper(self, file) ==
    IF ~file.exists THEN [err |-> "FileNotFoundError", self |-> self]
    ELSE [err |-> NoError,
          self |-> [self EXCEPT
              !.speakers_map = file.data.speakers_map,
              !.symbol_to_id = file.data.symbol_to_id,
              !.id_to_symbol =
                  [k \in {PyInt(StrToInt(j[2])) : j \in DOMAIN file.data.id_to_symbol} |->
                      file.data.id_to_symbol[PyStr(IntToStr(k[2]))]]]]

ReadTrain == "r:train.txt"
ReadMapper == "r:mapper.json"
WriteMapper == "w:mapper.json"

(***************************************************************************)
(* __post_init__, run on the instance the dataclass __init__ has filled.   *)
(* The result: the exception raised (or none), the instance, the snapshot  *)
(* file afterwards and the files opened, in order.                         *)
(* build_from_manifest is the part after the load_mapper branch.           *)
(***************************************************************************)
\* the manifest-driven path with the snapshot written before anything is built
build_save_first(self, save, train, mapper) ==
    LET early == IF save THEN save_mapper(self) ELSE mapper
        wrote == IF save THEN <<WriteMapper>> ELSE <<>>
    IN
    IF Len(self.symbols) < 1
    THEN [err |-> "DataProcessorError", self |-> self, mapper |-> early, io |-> wrote]
    ELSE LET ci == create_items(self, train) IN
         IF ci.err # NoError
         THEN [err |-> ci.err, self |-> [self EXCEPT !.items = ci.items],
               mapper |-> early, io |-> wrote \o <<ReadTrain>>]
         ELSE LET s1 == [self EXCEPT !.items = ci.items]
                  s2 == [s1 EXCEPT !.speakers_map = create_speaker_map(s1)]
                  s3 == [s2 EXCEPT !.reverse_speaker = reverse_speaker_of(s2.speakers_map)]
                  s4 == create_symbols(s3)
              IN  [err |-> NoError, self |-> s4, mapper |-> early,
                   io |-> wrote \o <<ReadTrain>>]

build_from_manifest(self, save, train, mapper) ==
    IF Len(self.symbols) < 1
    THEN [err |-> "DataProcessorError", self |-> self, mapper |-> mapper, io |-> <<>>]
    ELSE LET ci == create_items(self, train) IN
         IF ci.err # NoError
         THEN [err |-> ci.err, self |-> [self EXCEPT !.items = ci.items],
               mapper |-> mapper, io |-> <<ReadTrain>>]
         ELSE LET s1 == [self EXCEPT !.items = ci.items]
                  s2 == [s1 EXCEPT !.speakers_map = create_speaker_map(s1)]
                  s3 == [s2 EXCEPT !.reverse_speaker = reverse_speaker_of(s2.speakers_map)]
                  s4 == create_symbols(s3)
              IN  [err |-> NoError, self |-> s4,
                   mapper |-> IF save THEN save_mapper(s4) ELSE mapper,
                   io |-> IF save THEN <<ReadTrain, WriteMapper>> ELSE <<ReadTrain>>]

\* __post_init__ without the return that ends the load_mapper branch
post_init_fallthrough(self, save, load, train, mapper) ==
    IF load
    THEN LET l == load_mapper(self, mapper) IN
         IF l.err # NoError
         THEN [err |-> l.err, self |-> l.self, mapper |-> mapper, io |-> <<ReadMapper>>]
         ELSE LET b == build_from_manifest(l.self, save, train, mapper) IN
              [b EXCEPT !.io = <<ReadMapper>> \o @]
    ELSE build_from_manifest(self, save, train, mapper)

post_init(self, save, load, train, mapper) ==
    IF load
    THEN LET l == load_mapper(self, mapper) IN
         [err |-> l.err, self |-> l.self, mapper |-> mapper, io |-> <<ReadMapper>>]
    ELSE build_from_manifest(self, save, train, mapper)

(***************************************************************************)
(* add_symbol.  A list recurses element by element; an exception stops the *)
(* loop and keeps what the earlier elements added.                         *)
(***************************************************************************)
RECURSIVE add_symbol(_, _)
RECURSIVE add_symbol_each(_, _)
add_symbol(self, symbol) ==
    IF IsStr(symbol)
    THEN IF symbol \in DOMAIN self.symbol_to_id
         THEN [err |-> NoError, self |-> self]
         ELSE LET symbol_id == Cardinality(DOMAIN self.symbol_to_id) IN
              [err |-> NoError,
               self |-> [self EXCEPT
                   !.symbols = Append(@, symbol[2]),
                   !.symbol_to_id = (symbol :> symbol_id) @@ @,
                   !.id_to_symbol = (PyInt(symbol_id) :> symbol[2]) @@ @]]
    ELSE IF IsList(symbol)
    THEN add_symbol_each(self, symbol[2])
    ELSE [err |-> "ValueError", self |-> self]

add_symbol_each(self, list) ==
    IF list = <<>> THEN [err |-> NoError, self |-> self]
    ELSE LET r == add_symbol(self, Head(list)) IN
         IF r.err # NoError THEN r ELSE add_symbol_each(r.self, Tail(list))

(***************************************************************************)
(* Attribute access.  Python looks a name up among the attributes of the   *)
(* instance and its class and calls __getattr__ only when it finds none.   *)
(***************************************************************************)
N_id == <<"_", "i", "d">>
N_symbol_to_id == <<"s", "y", "m", "b", "o", "l", "_", "t", "o", "_", "i", "d">>
N_id_to_symbol == <<"i", "d", "_", "t", "o", "_", "s", "y", "m", "b", "o", "l">>
N_speakers_map == <<"s", "p", "e", "a", "k", "e", "r", "s", "_", "m", "a", "p">>
N__symbol_to_id == <<"_">> \o N_symbol_to_id

\* the dictionary attributes of an instance, by name
attributes(self) ==
    << <<N_symbol_to_id, self.symbol_to_id>>,
       <<N_id_to_symbol, self.id_to_symbol>>,
       <<N_speakers_map, self.speakers_map>> >>

getattr_hook(self, name) ==
    IF Find(name, N_id, 1) # 0
    THEN LET key == PyStr(Split(name, N_id)[1]) IN
         IF ~HasKey(extra_tokens, key) THEN [err |-> "KeyError", val |-> <<>>]
         ELSE LET token == PyStr(Get(extra_tokens, key)) IN
              IF token \notin DOMAIN self.symbol_to_id
              THEN [err |-> "KeyError", val |-> <<>>]
              ELSE [err |-> NoError, val |-> self.symbol_to_id[token]]
    ELSE IF ~HasKey(extra_tokens, PyStr(name)) THEN [err |-> "KeyError", val |-> <<>>]
    ELSE [err |-> NoError, val |-> Get(extra_tokens, PyStr(name))]

getattr(self, name) ==
    IF HasKey(attributes(self), name)
    THEN [err |-> NoError, val |-> Get(attributes(self), name)]
    ELSE getattr_hook(self, name)

\* d[key] for a dictionary attribute just fetched
subscript(d, key) ==
    IF d.err # NoError THEN [err |-> d.err, val |-> <<>>]
    ELSE IF key \notin DOMAIN d.val THEN [err |-> "KeyError", val |-> <<>>]
    ELSE [err |-> NoError, val |-> d.val[key]]

RECURSIVE convert_loop(_, _, _)
convert_loop(self, symbols, sequence) ==
    IF symbols = <<>> THEN [err |-> NoError, ret |-> sequence]
    ELSE LET s == Head(symbols) IN
         IF IsStr(s)
         THEN LET v == subscript(getattr(self, N__symbol_to_id), s) IN
              IF v.err # NoError THEN [err |-> v.err, ret |-> <<>>]
              ELSE convert_loop(self, Tail(symbols), Append(sequence, v.val))
         ELSE [err |-> "ValueError", ret |-> <<>>]

convert_symbols_to_ids(self, symbols) ==
    IF IsStr(symbols)
    THEN LET v == subscript(getattr(self, N__symbol_to_id), symbols) IN
         IF v.err # NoError THEN [err |-> v.err, ret |-> <<>>]
         ELSE [err |-> NoError, ret |-> <<v.val>>]
    ELSE IF IsList(symbols) THEN convert_loop(self, symbols[2], <<>>)
    ELSE [err |-> "ValueError", ret |-> <<>>]

get_speaker_id(self, name) ==
    IF ~HasKey(self.speakers_map, name) THEN [err |-> "KeyError", ret |-> <<>>]
    ELSE [err |-> NoError, ret |-> <<Get(self.speakers_map, name)>>]

get_speaker_name(self, speaker_id) ==
    IF ~HasKey(self.speakers_map, speaker_id) THEN [err |-> "KeyError", ret |-> <<>>]
    ELSE [err |-> NoError, ret |-> <<Get(self.speakers_map, speaker_id)>>]

(***************************************************************************)
(* The inputs.                                                             *)
(***************************************************************************)
SeqsUpTo(S, n) == UNION {[1..k -> S] : k \in 0..n}

SpkA == <<"A">>
SpkB == <<"B">>
SpkZ == <<"Z">>
Text == <<"h", " ", "i">>
FilePlain == <<"f">>
FileWav == <<"g">> \o f_extension

Line(file, text, speaker) ==
    file \o delimiter \o text \o delimiter \o speaker \o <<"\n">>

BlankLine == <<"\n">>
ShortLine == FilePlain \o delimiter \o Text \o <<"\n">>

\* well-formed records, one of them indented and without its newline
RecordLines == {Line(FilePlain, Text, SpkA), Line(FileWav, Text, SpkB),
                <<" ">> \o FilePlain \o delimiter \o Text \o delimiter \o SpkB}

Lines == RecordLines \cup {BlankLine, ShortLine}

Manifests == SeqsUpTo(Lines, MaxLines)

SymA == <<"a">>
SymB == <<"b">>
SymX == <<"x">>

\* symbols arguments; a caller may list a reserved token among them
BaseSymbols == SeqsUpTo({SymA, SymB, PAD}, MaxSyms)

OpsSymbols == SeqsUpTo({SymA, SymB}, MaxSyms) \ {<<>>}

\* speakers_map arguments: the default, and a map a caller carries over
SpeakerMaps == {<<>>, << <<PyStr(SpkB), 0>> >>}

NotAString == PyInt(7)

AddArgs == {PyStr(SymA), PyStr(SymX), NotAString}
             \cup {PyList(l) : l \in SeqsUpTo({PyStr(SymA), PyStr(SymX)}, MaxList)}

ConvertArgs == {PyStr(SymA), PyStr(SymB), NotAString}
                 \cup {PyList(l) : l \in SeqsUpTo({PyStr(SymA), PyStr(SymB)}, MaxList)}

SpeakerNames == {PyStr(SpkA), PyStr(SpkB), PyStr(SpkZ)}
SpeakerIds == {PyInt(0), PyInt(1)}

\* a snapshot an earlier run of the program left in root_dir
OldSnapshot ==
    post_init(NewInstance(<<SymB>>, <<>>), TRUE, FALSE,
              [exists |-> TRUE, data |-> <<Line(FilePlain, Text, SpkB)>>], NoFile).mapper

(***************************************************************************)
(* The state machine: the two files under root_dir, an instance p1 built   *)
(* from the manifest, an instance p2 built with load_mapper, and the last  *)
(* call with its arguments and outcome.                                    *)
(***************************************************************************)
Init ==
    /\ train_file \in {NoFile} \cup {[exists |-> TRUE, data |-> m] : m \in Manifests}
    /\ mapper_file \in {NoFile, OldSnapshot}
    /\ p1 = Uninit
    /\ p2 = Uninit
    /\ call = [op |-> "start", target |-> 0, args |-> <<>>, err |-> NoError,
               ret |-> <<>>, io |-> <<>>]

\* an exception propagates to the caller and ends the run
Running == call.err = NoError

\* ExamplePrepro(root_dir, symbols, speakers_map, save_mapper=save)
Construct(symbols, speakers_map, save) ==
    /\ Running
    /\ ~p1.built
    /\ LET r == post_init(NewInstance(symbols, speakers_map), save, FALSE,
                          train_file, mapper_file) IN
       /\ p1' = IF r.err = NoError THEN r.self ELSE Uninit
       /\ mapper_file' = r.mapper
       /\ call' = [op |-> "construct", target |-> 1,
                   args |-> [symbols |-> symbols, speakers_map |-> speakers_map,
                             save |-> save],
                   err |-> r.err, ret |-> <<>>, io |-> r.io]
    /\ UNCHANGED <<train_file, p2>>

\* ExamplePrepro(root_dir, symbols, load_mapper=True, save_mapper=save)
Reload(symbols, save) ==
    /\ Running
    /\ ~p2.built
    /\ LET r == post_init(NewInstance(symbols, <<>>), save, TRUE,
                          train_file, mapper_file) IN
       /\ p2' = IF r.err = NoError THEN r.self ELSE Uninit
       /\ mapper_file' = r.mapper
       /\ call' = [op |-> "reload", target |-> 2,
                   args |-> [symbols |-> symbols, speakers_map |-> <<>>,
                             save |-> save],
                   err |-> r.err, ret |-> <<>>, io |-> r.io]
    /\ UNCHANGED <<train_file, p1>>

Instance(t) == IF t = 1 THEN p1 ELSE p2

AddSymbol(t, symbol) ==
    /\ Running
    /\ Instance(t).built
    /\ LET r == add_symbol(Instance(t), symbol) IN
       /\ p1' = IF t = 1 THEN r.self ELSE p1
       /\ p2' = IF t = 2 THEN r.self ELSE p2
       /\ call' = [op |-> "add_symbol", target |-> t, args |-> symbol,
                   err |-> r.err, ret |-> <<>>, io |-> <<>>]
    /\ UNCHANGED <<train_file, mapper_file>>

ConvertSymbolsToIds(t, symbols) ==
    /\ Running
    /\ Instance(t).built
    /\ LET r == convert_symbols_to_ids(Instance(t), symbols) IN
       call' = [op |-> "convert_symbols_to_ids", target |-> t, args |-> symbols,
                err |-> r.err, ret |-> r.ret, io |-> <<>>]
    /\ UNCHANGED <<train_file, mapper_file, p1, p2>>

GetSpeakerId(t, name) ==
    /\ Running
    /\ Instance(t).built
    /\ LET r == get_speaker_id(Instance(t), name) IN
       call' = [op |-> "get_speaker_id", target |-> t, args |-> name,
                err |-> r.err, ret |-> r.ret, io |-> <<>>]
    /\ UNCHANGED <<train_file, mapper_file, p1, p2>>

GetSpeakerName(t, speaker_id) ==
    /\ Running
    /\ Instance(t).built
    /\ LET r == get_speaker_name(Instance(t), speaker_id) IN
       call' = [op |-> "get_speaker_name", target |-> t, args |-> speaker_id,
                err |-> r.err, ret |-> r.ret, io |-> <<>>]
    /\ UNCHANGED <<train_file, mapper_file, p1, p2>>

\* the construction protocol: the two ways of building an instance
Next ==
    \/ \E symbols \in BaseSymbols, speakers_map \in SpeakerMaps, save \in BOOLEAN :
           Construct(symbols, speakers_map, save)
    \/ \E symbols \in {<<>>, <<SymA>>}, save \in BOOLEAN : Reload(symbols, save)

Spec == Init /\ [][Next]_vars

(***************************************************************************)
(* The public operations, on instances built from manifests of well-formed *)
(* records with the default speakers_map.                                  *)
(***************************************************************************)
InitOps ==
    /\ train_file \in {[exists |-> TRUE, data |-> m] : m \in SeqsUpTo(RecordLines, MaxLines)}
    /\ mapper_file = NoFile
    /\ p1 = Uninit
    /\ p2 = Uninit
    /\ call = [op |-> "start", target |-> 0, args |-> <<>>, err |-> NoError,
               ret |-> <<>>, io |-> <<>>]

NextOps ==
    \/ \E symbols \in OpsSymbols : Construct(symbols, <<>>, TRUE)
    \/ Reload(<<>>, FALSE)
    \/ \E t \in {1, 2}, symbol \in AddArgs : AddSymbol(t, symbol)
    \/ \E t \in {1, 2}, symbols \in ConvertArgs : ConvertSymbolsToIds(t, symbols)
    \/ \E t \in {1, 2}, name \in SpeakerNames : GetSpeakerId(t, name)
    \/ \E t \in {1, 2}, speaker_id \in SpeakerIds : GetSpeakerName(t, speaker_id)

SpecOps == InitOps /\ [][NextOps]_vars
(***************************************************************************)
(* The properties.                                                         *)
(***************************************************************************)
InstanceNext(t) == IF t = 1 THEN p1' ELSE p2'

Constructed == call.op = "construct" /\ call.err = NoError
Reloaded == call.op = "reload" /\ call.err = NoError

\* the distinct elements of a sequence, in order of first occurrence
RECURSIVE FirstSeen(_, _)
FirstSeen(seq, seen) ==
    IF seq = <<>> THEN seen
    ELSE IF \E i \in DOMAIN seen : seen[i] = Head(seq) THEN FirstSeen(Tail(seq), seen)
    ELSE FirstSeen(Tail(seq), Append(seen, Head(seq)))

Distinct(seq) == \A i, j \in DOMAIN seq : seq[i] = seq[j] => i = j

Reserved == {UNK, PAD, EOS, BOS}

\* C1: on an instance built from a manifest, get_speaker_name applied to the
\* id get_speaker_id returns for a speaker name of the manifest succeeds and
\* returns that name.
C1_SpeakerRoundTrip ==
    (call.op = "get_speaker_name" /\ call.target = 1) =>
        \A k \in DOMAIN p1.items :
            LET name == p1.items[k][3]
                id == get_speaker_id(p1, PyStr(name))
            IN  (id.err = NoError /\ call.args = PyInt(id.ret[1])) =>
                    (call.err = NoError /\ call.ret = <<name>>)

\* C2: convert_symbols_to_ids returns the ids of a list of symbols of the
\* table, in order; the one-element sequence of the id for a bare string of
\* the table; raises a lookup error for a string not in the table; and leaves
\* the instance unchanged.
C2_ConvertSymbols ==
    [][call'.op = "convert_symbols_to_ids" =>
        LET table == Instance(call'.target).symbol_to_id
            a == call'.args
        IN  /\ (IsList(a) /\ \A i \in DOMAIN a[2] : a[2][i] \in DOMAIN table) =>
                   /\ call'.err = NoError
                   /\ call'.ret = [i \in DOMAIN a[2] |-> table[a[2][i]]]
            /\ (IsStr(a) /\ a \in DOMAIN table) =>
                   (call'.err = NoError /\ call'.ret = <<table[a]>>)
            /\ (IsStr(a) /\ a \notin DOMAIN table) => call'.err = "KeyError"
            /\ UNCHANGED <<p1, p2>>]_vars

\* the table a manifest-driven construction gives the base symbols: one entry
\* per base symbol and reserved token, the base symbol at position i with id
\* i, then [UNK], [PAD], [EOS], [BOS]
TableOfBase(base) ==
    /\ Cardinality(DOMAIN p1.symbol_to_id) = Len(base) + 4
    /\ \A i \in DOMAIN base : p1.symbol_to_id[PyStr(base[i])] = i - 1
    /\ p1.symbol_to_id[PyStr(UNK)] = Len(base)
    /\ p1.symbol_to_id[PyStr(PAD)] = Len(base) + 1
    /\ p1.symbol_to_id[PyStr(EOS)] = Len(base) + 2
    /\ p1.symbol_to_id[PyStr(BOS)] = Len(base) + 3

AddedStrings(a) == IF IsStr(a) THEN {a} ELSE {a[2][i] : i \in DOMAIN a[2]}

\* C4: add_symbol of a string that is present changes nothing; a string that
\* is not present gets the next sequential id, an id no symbol has yet, and no
\* other symbol's id changes; a list adds each of its strings once.
C4_AddSymbol ==
    [][(call'.op = "add_symbol" /\ call'.err = NoError) =>
        LET old == Instance(call'.target)
            new == InstanceNext(call'.target)
            a == call'.args
            fresh == AddedStrings(a) \ DOMAIN old.symbol_to_id
        IN  /\ \A s \in DOMAIN old.symbol_to_id : new.symbol_to_id[s] = old.symbol_to_id[s]
            /\ DOMAIN new.symbol_to_id = DOMAIN old.symbol_to_id \cup AddedStrings(a)
            /\ Cardinality(DOMAIN new.id_to_symbol)
                   = Cardinality(DOMAIN old.id_to_symbol) + Cardinality(fresh)
            /\ fresh = {} =>
                   (new.symbol_to_id = old.symbol_to_id /\ new.id_to_symbol = old.id_to_symbol)
            /\ (IsStr(a) /\ fresh # {}) =>
                   /\ new.symbol_to_id[a] = Cardinality(DOMAIN old.symbol_to_id)
                   /\ \A s \in DOMAIN old.symbol_to_id :
                          old.symbol_to_id[s] < new.symbol_to_id[a]
                   /\ new.id_to_symbol[PyInt(new.symbol_to_id[a])] = a[2]]_vars

\* C5: an instance built with load_mapper right after one built from the
\* manifest with save_mapper has the same symbol_to_id, id_to_symbol (integer
\* keys) and speakers_map, and no items.
C5_SnapshotRoundTrip ==
    [][(/\ call.op = "construct" /\ call.err = NoError /\ call.args.save
        /\ call'.op = "reload" /\ call'.err = NoError) =>
           /\ p2'.symbol_to_id = p1.symbol_to_id
           /\ p2'.id_to_symbol = p1.id_to_symbol
           /\ p2'.speakers_map = p1.speakers_map
           /\ p2'.items = <<>>]_vars

C5_Witness ==
    /\ Reloaded
    /\ p1.built
    /\ Len(p1.items) = MaxLines
    /\ mapper_file # OldSnapshot
    /\ p2.id_to_symbol = p1.id_to_symbol
    /\ Cardinality(DOMAIN p2.id_to_symbol) = MaxSyms + 4

\* a manifest line is blank when nothing but white space is on it
NonBlank(line) == \E i \in DOMAIN line : ~IsSpace(line[i])

Fields(line) == Split(Strip(line), delimiter)

EndsWith(s, ext) == Len(s) >= Len(ext) /\ SubSeq(s, Len(s) - Len(ext) + 1, Len(s)) = ext

\* the item of a well-formed record
ItemOf(line) ==
    LET path == PathJoin(root_dir, Fields(line)[1]) IN
    <<Fields(line)[2], IF EndsWith(path, f_extension) THEN path ELSE path \o f_extension,
      Fields(line)[3]>>

\* C6: a manifest-driven construction whose manifest has N well-formed records
\* among its non-empty lines succeeds and has exactly the N items of these
\* records, in file order; blank lines give nothing.
C6_ItemPerNonEmptyLine ==
    (/\ call.op = "construct"
     /\ call.args.symbols # <<>>
     /\ train_file.exists
     /\ \A i \in DOMAIN train_file.data :
            NonBlank(train_file.data[i]) => Len(Fields(train_file.data[i])) = 3)
        => LET records == SelectSeq(train_file.data, NonBlank) IN
           /\ call.err = NoError
           /\ p1.items = [k \in DOMAIN records |-> ItemOf(records[k])]

\* C7: after a manifest-driven construction and any add_symbol calls,
\* symbol_to_id and id_to_symbol have the same size, the ids are exactly
\* 0 .. size-1 and id_to_symbol[symbol_to_id[s]] = s for every symbol s.
C7_TablesInverse ==
    p1.built =>
        LET size == Cardinality(DOMAIN p1.symbol_to_id) IN
        /\ Cardinality(DOMAIN p1.id_to_symbol) = size
        /\ DOMAIN p1.id_to_symbol = {PyInt(i) : i \in 0..(size - 1)}
        /\ \A s \in DOMAIN p1.symbol_to_id :
               /\ PyInt(p1.symbol_to_id[s]) \in DOMAIN p1.id_to_symbol
               /\ p1.id_to_symbol[PyInt(p1.symbol_to_id[s])] = s[2]

\* C8: after a manifest-driven construction, whatever speakers_map was passed,
\* no two speaker names share an id and the i-th distinct speaker name of the
\* manifest, in file order, has id i (from 0).
C8_SpeakersFirstSeen ==
    Constructed =>
        LET m == p1.speakers_map
            seen == FirstSeen([k \in DOMAIN p1.items |-> p1.items[k][3]], <<>>)
        IN  /\ \A i, j \in DOMAIN m : m[i][2] = m[j][2] => i = j
            /\ \A i \in DOMAIN seen : Get(m, PyStr(seen[i])) = i - 1

C10_FailureWritesNothing ==
    [][call'.op = "construct" =>
        /\ call'.args.symbols = <<>> =>
               (call'.err = "DataProcessorError" /\ call'.io = <<>>)
        /\ call'.err # NoError => (mapper_file' = mapper_file /\ ~p1'.built)
        /\ ~call'.args.save => mapper_file' = mapper_file
        /\ (\E i \in DOMAIN call'.io : call'.io[i] = WriteMapper) =>
               /\ call'.args.save
               /\ call'.err = NoError
               /\ call'.io = <<ReadTrain, WriteMapper>>
               /\ mapper_file'.exists
               /\ mapper_file'.data.symbol_to_id = p1'.symbol_to_id
               /\ mapper_file'.data.speakers_map = p1'.speakers_map
               /\ Cardinality(DOMAIN mapper_file'.data.id_to_symbol)
                      = Len(call'.args.symbols) + 4
        /\ (call'.args.save /\ call'.err = NoError) =>
               call'.io = <<ReadTrain, WriteMapper>>]_vars

C10_Witness ==
    /\ call.op = "construct"
    /\ call.err = "IndexError"
    /\ call.args.save
    /\ call.io = <<ReadTrain>>
    /\ mapper_file = OldSnapshot
    /\ ~p1.built
====
